---- MODULE Spec2Model ----
(***************************************************************************)
(* A model of graph_times.py: the argument dispatch, the line parser that  *)
(* groups (speed, time) samples by label, and the rendering of one subplot *)
(* per label followed by show-or-save.                                     *)
(*                                                                         *)
(* Text (lines, tokens, paths, labels) is a sequence of one-character      *)
(* strings, so that replace, split, int, basename and splitext are         *)
(* computed character by character the way the Python functions do.        *)
(***************************************************************************)
EXTENDS Integers, Sequences, FiniteSets, TLC

VARIABLES
    argv,         \* sys.argv: argv[1] is the program name (Python's argv[0])
    inputLines,   \* the lines the chosen input stream holds
    pc,           \* position of the script
    input,        \* "unset", "file" or "stdin"
    fileOpen,     \* TRUE while the handle of open(sys.argv[1]) is open
    output_file,  \* [isNone, path]
    pos,          \* number of lines of the input processed without failure
    data,         \* the dict, as a sequence of [label, series] in insertion order
    fig,          \* [created, figsize]
    axs,          \* [single, items]: what the name axs is bound to
    colors,       \* the colour iterator's values
    idx,          \* the index of the running for loop over the subplots
    shown,        \* plt.show() was called
    saved,        \* the paths plt.savefig() was called with
    usagePrinted, \* the usage message was printed
    exitCode      \* -1 while running, else the exit status

vars == <<argv, inputLines, pc, input, fileOpen, output_file, pos, data, fig,
          axs, colors, idx, shown, saved, usagePrinted, exitCode>>

(***************************************************************************)
(* Bounds of the model.                                                    *)
(***************************************************************************)
MaxLines == 3

(***************************************************************************)
(* Characters.                                                             *)
(***************************************************************************)
NL == "\n"

Whitespace == {" ", NL, "\t"}

Digits == {"0", "1", "2", "3", "4", "5", "6", "7", "8", "9"}

DigitVal(c) ==
    CASE c = "0" -> 0 [] c = "1" -> 1 [] c = "2" -> 2 [] c = "3" -> 3
      [] c = "4" -> 4 [] c = "5" -> 5 [] c = "6" -> 6 [] c = "7" -> 7
      [] c = "8" -> 8 [] c = "9" -> 9

(***************************************************************************)
(* str.replace(old, new) for a one-character old.                          *)
(***************************************************************************)
RECURSIVE replace(_, _, _)
replace(s, old, new) ==
    IF s = <<>> THEN <<>>
    ELSE (IF Head(s) = old THEN new ELSE <<Head(s)>>)
             \o replace(Tail(s), old, new)

(***************************************************************************)
(* str.split(sep) for a one-character sep: every occurrence separates, so  *)
(* two adjacent separators give an empty token.                            *)
(***************************************************************************)
RECURSIVE split(_, _)
split(s, sep) ==
    IF s = <<>> THEN << <<>> >>
    ELSE LET rest == split(Tail(s), sep)
         IN  IF Head(s) = sep THEN << <<>> >> \o rest
             ELSE << <<Head(s)>> \o Head(rest) >> \o Tail(rest)

(***************************************************************************)
(* int(token): surrounding whitespace is stripped, one sign is allowed,    *)
(* then decimal digits, with single underscores between digits.            *)
(***************************************************************************)
RECURSIVE lstrip(_)
lstrip(s) ==
    IF s # <<>> /\ Head(s) \in Whitespace THEN lstrip(Tail(s)) ELSE s

RECURSIVE rstrip(_)
rstrip(s) ==
    IF s # <<>> /\ s[Len(s)] \in Whitespace
    THEN rstrip(SubSeq(s, 1, Len(s) - 1)) ELSE s

strip(s) == rstrip(lstrip(s))

IntBody(t) ==
    LET u == strip(t)
    IN  IF u # <<>> /\ Head(u) \in {"+", "-"} THEN Tail(u) ELSE u

IntSign(t) ==
    LET u == strip(t)
    IN  IF u # <<>> /\ Head(u) = "-" THEN -1 ELSE 1

IsInt(t) ==
    LET b == IntBody(t)
    IN  /\ b # <<>>
        /\ \A i \in 1..Len(b) : b[i] \in Digits \cup {"_"}
        /\ b[1] \in Digits
        /\ b[Len(b)] \in Digits
        /\ \A i \in 1..(Len(b) - 1) : ~(b[i] = "_" /\ b[i + 1] = "_")

RECURSIVE DigitsValue(_)
DigitsValue(b) ==
    IF b = <<>> THEN 0
    ELSE IF b[Len(b)] = "_" THEN DigitsValue(SubSeq(b, 1, Len(b) - 1))
    ELSE 10 * DigitsValue(SubSeq(b, 1, Len(b) - 1)) + DigitVal(b[Len(b)])

int_no_sign(t) == DigitsValue(IntBody(t))

int(t) == IntSign(t) * DigitsValue(IntBody(t))

(***************************************************************************)
(* os.path.basename and os.path.splitext (posixpath / genericpath).        *)
(***************************************************************************)
rfind(s, c) ==
    LET hits == {i \in 1..Len(s) : s[i] = c}
    IN  IF hits = {} THEN 0 ELSE CHOOSE i \in hits : \A j \in hits : j <= i

basename(p) == SubSeq(p, rfind(p, "/") + 1, Len(p))

splitext_keep(p) == <<p, <<>> >>

splitext(p) ==
    LET sepIndex == rfind(p, "/")
        dotIndex == rfind(p, ".")
    IN  IF /\ dotIndex > sepIndex
           /\ \E k \in (sepIndex + 1)..(dotIndex - 1) : p[k] # "."
        THEN <<SubSeq(p, 1, dotIndex - 1), SubSeq(p, dotIndex, Len(p))>>
        ELSE <<p, <<>> >>

PngExt == <<".", "p", "n", "g">>

OutputPath(arg) == splitext(basename(arg))[1] \o PngExt

(***************************************************************************)
(* The command lines the model runs the script with.                       *)
(***************************************************************************)
Prog == <<"p", "r", "o", "g">>

HelpFlag == <<"-", "-", "h", "e", "l", "p">>

BenchTxt == <<"b", "e", "n", "c", "h", ".", "t", "x", "t">>

DeepPath == <<"d", "/", "a", ".", "b", ".", "c">>

DotRc == <<".", "r", "c">>

Argvs ==
    { <<Prog>>,
      <<Prog, BenchTxt>>, <<Prog, DeepPath>>, <<Prog, DotRc>>,
      <<Prog, HelpFlag>>,
      <<Prog, BenchTxt, DeepPath>>, <<Prog, HelpFlag, BenchTxt>>,
      <<Prog, BenchTxt, HelpFlag, DotRc>> }

(***************************************************************************)
(* The input lines the model feeds the parser.  A line the file iterator   *)
(* yields ends with a newline, except possibly the last line of the        *)
(* stream.                                                                 *)
(***************************************************************************)
Alpha == <<"a", "l", "p", "h", "a">>

LineAlpha == Alpha \o <<" ", "3", ":", " ", "1", "2", "0", NL>>

LineAlphaNoNL == Alpha \o <<" ", "3", ":", " ", "1", "2", "0">>

LineB2 == <<"b", " ", "2", ":", " ", "2", "0", NL>>

LineB1 == <<"b", " ", "1", ":", " ", "2", "0", NL>>

LineBExtra == <<"b", ":", " ", "-", "1", ":", " ", "7", " ", "x", NL>>

LineC == <<"c", " ", "1", "0", ":", " ", "5", NL>>

LineNoTime == Alpha \o <<" ", "3", NL>>

LineEmpty == <<NL>>

LineBadSpeed == <<"b", " ", "x", ":", " ", "5", NL>>

LineBlankTime == <<"c", " ", "1", ":", " ", NL>>

Lines ==
    { LineAlpha, LineAlphaNoNL, LineB2, LineB1, LineBExtra, LineC,
      LineNoTime, LineEmpty, LineBadSpeed, LineBlankTime }

EndsWithNL(l) == l # <<>> /\ l[Len(l)] = NL

Inputs ==
    { s \in UNION { [1..n -> Lines] : n \in 0..MaxLines } :
        \A i \in 1..(Len(s) - 1) : EndsWithNL(s[i]) }

(***************************************************************************)
(* The parse of one line (lines 36-38).                                    *)
(***************************************************************************)
Tokens(line) == split(replace(line, ":", <<>>), " ")

Unpacks(line) == Len(Tokens(line)) >= 3

Converts(line) == IsInt(Tokens(line)[2]) /\ IsInt(Tokens(line)[3])

LabelOf(line) == Tokens(line)[1]

SampleOf(line) == <<int(Tokens(line)[2]), int(Tokens(line)[3])>>

(***************************************************************************)
(* The dict data: a sequence of [label, series] entries in insertion       *)
(* order.                                                                  *)
(***************************************************************************)
HasKey(d, label) == \E i \in 1..Len(d) : d[i].label = label

KeyIndex(d, label) == CHOOSE i \in 1..Len(d) : d[i].label = label

setdefault_dup(d, label) == Append(d, [label |-> label, series |-> <<>>])

setdefault_front(d, label) ==
    IF HasKey(d, label) THEN d
    ELSE <<[label |-> label, series |-> <<>>]>> \o d

setdefault(d, label) ==
    IF HasKey(d, label) THEN d
    ELSE Append(d, [label |-> label, series |-> <<>>])

append(d, label, sample) ==
    [d EXCEPT ![KeyIndex(d, label)].series = Append(@, sample)]

(***************************************************************************)
(* Rendering helpers (lines 40-52).                                        *)
(***************************************************************************)
NewAxes == [lines |-> <<>>, xlabel |-> "", ylabel |-> "", legend |-> FALSE]

\* plt.subplots(1, n): a bare Axes when n = 1, an array of n Axes otherwise
PltSubplots(n) == [single |-> (n = 1), items |-> [i \in 1..n |-> NewAxes]]

\* axs = [axs], done when len(data) == 1
WrapAxs(a, n) == IF n = 1 THEN [single |-> FALSE, items |-> a.items] ELSE a

\* np.linspace(0, 1, n) without its end point: i-th value (i-1)/n
linspace_open(n) == [i \in 1..n |-> <<i - 1, n>>]

\* np.linspace(0, 1, n): the i-th value is the fraction <<num, den>>
linspace(n) == [i \in 1..n |-> IF n = 1 THEN <<0, 1>> ELSE <<i - 1, n - 1>>]

Min(a, b) == IF a <= b THEN a ELSE b

\* the number of triples zip(axs, data.items(), colors) yields
ZipLen == Min(Len(axs.items), Min(Len(data), Len(colors)))

\* x, y = zip(*series)
Unzip(series) == << [k \in 1..Len(series) |-> series[k][1]],
                    [k \in 1..Len(series) |-> series[k][2]] >>

NoOutputFile == [isNone |-> TRUE, path |-> <<>>]

(***************************************************************************)
(* The initial state: the command line and the content of the stream the   *)
(* script will read are given; nothing has run.                            *)
(***************************************************************************)
Init ==
    /\ argv \in Argvs
    /\ inputLines \in Inputs
    /\ pc = "start"
    /\ input = "unset"
    /\ fileOpen = FALSE
    /\ output_file = NoOutputFile
    /\ pos = 0
    /\ data = <<>>
    /\ fig = [created |-> FALSE, figsize |-> <<0, 0>>]
    /\ axs = [single |-> FALSE, items |-> <<>>]
    /\ colors = <<>>
    /\ idx = 0
    /\ shown = FALSE
    /\ saved = <<>>
    /\ usagePrinted = FALSE
    /\ exitCode = -1

(***************************************************************************)
(* Lines 16-31: the argument dispatch.                                     *)
(***************************************************************************)
UsageCond_count(av) == Len(av) > 3 \/ (Len(av) = 2 /\ av[2] = HelpFlag)

UsageCond_nohelp(av) == Len(av) > 2

UsageCond(av) == Len(av) > 2 \/ (Len(av) = 2 /\ av[2] = HelpFlag)

Usage ==
    /\ pc = "start"
    /\ UsageCond(argv)
    /\ usagePrinted' = TRUE
    /\ exitCode' = 1
    /\ pc' = "usage_exit"
    /\ UNCHANGED <<argv, inputLines, input, fileOpen, output_file, pos, data,
                   fig, axs, colors, idx, shown, saved>>

\* open(sys.argv[1]) succeeds; data = {} follows (line 34)
OpenFile ==
    /\ pc = "start"
    /\ ~UsageCond(argv)
    /\ Len(argv) = 2
    /\ input' = "file"
    /\ fileOpen' = TRUE
    /\ output_file' = [isNone |-> FALSE, path |-> OutputPath(argv[2])]
    /\ data' = <<>>
    /\ pc' = "parse"
    /\ UNCHANGED <<argv, inputLines, pos, fig, axs, colors, idx, shown, saved,
                   usagePrinted, exitCode>>

\* open(sys.argv[1]) raises: the file is missing or unreadable
OpenFail ==
    /\ pc = "start"
    /\ ~UsageCond(argv)
    /\ Len(argv) = 2
    /\ exitCode' = 1
    /\ pc' = "io_error"
    /\ UNCHANGED <<argv, inputLines, input, fileOpen, output_file, pos, data,
                   fig, axs, colors, idx, shown, saved, usagePrinted>>

UseStdin ==
    /\ pc = "start"
    /\ ~UsageCond(argv)
    /\ Len(argv) # 2
    /\ input' = "stdin"
    /\ output_file' = NoOutputFile
    /\ data' = <<>>
    /\ pc' = "parse"
    /\ UNCHANGED <<argv, inputLines, fileOpen, pos, fig, axs, colors, idx,
                   shown, saved, usagePrinted, exitCode>>

(***************************************************************************)
(* Lines 35-38: the parse loop, one line per step.                         *)
(***************************************************************************)
AtEOF_early == pos >= 1 \/ pos = Len(inputLines)

AtEOF == pos = Len(inputLines)

ParseLine ==
    /\ pc = "parse"
    /\ ~AtEOF
    /\ LET line == inputLines[pos + 1]
       IN  /\ Unpacks(line)
           /\ Converts(line)
           /\ data' = append(setdefault(data, LabelOf(line)), LabelOf(line),
                             SampleOf(line))
    /\ pos' = pos + 1
    /\ UNCHANGED <<argv, inputLines, pc, input, fileOpen, output_file, fig,
                   axs, colors, idx, shown, saved, usagePrinted, exitCode>>

\* a bad line is stepped over instead of ending the run
ParseFail_skip ==
    /\ pc = "parse"
    /\ ~AtEOF
    /\ LET line == inputLines[pos + 1]
       IN  ~(Unpacks(line) /\ Converts(line))
    /\ pos' = pos + 1
    /\ UNCHANGED <<argv, inputLines, pc, input, fileOpen, output_file, data,
                   fig, axs, colors, idx, shown, saved, usagePrinted, exitCode>>

\* The unpacking of line 37 raises with fewer than 3 tokens.  On line 38
\* data.setdefault(label, []) is evaluated before int(speed) and
\* int(time_ms), so a conversion failure leaves the key of a new label
\* behind, with an empty list.
ParseFail ==
    /\ pc = "parse"
    /\ ~AtEOF
    /\ LET line == inputLines[pos + 1]
       IN  \/ /\ ~Unpacks(line)
              /\ data' = data
           \/ /\ Unpacks(line)
              /\ ~Converts(line)
              /\ data' = setdefault(data, LabelOf(line))
    /\ exitCode' = 1
    /\ pc' = "parse_error"
    /\ UNCHANGED <<argv, inputLines, input, fileOpen, output_file, pos, fig,
                   axs, colors, idx, shown, saved, usagePrinted>>

ParseEnd ==
    /\ pc = "parse"
    /\ AtEOF
    /\ pc' = "subplots"
    /\ UNCHANGED <<argv, inputLines, input, fileOpen, output_file, pos, data,
                   fig, axs, colors, idx, shown, saved, usagePrinted, exitCode>>

(***************************************************************************)
(* Lines 40-44: the figure, its subplots and the colours.  What            *)
(* plt.subplots(1, 0) does is the library's business: it raises, or it     *)
(* returns no subplot.                                                     *)
(***************************************************************************)
Subplots ==
    /\ pc = "subplots"
    /\ LET n == Len(data)
       IN  /\ fig' = [created |-> TRUE, figsize |-> <<6 * n, 4>>]
           /\ axs' = WrapAxs(PltSubplots(n), n)
           /\ colors' = linspace(n)
    /\ idx' = 1
    /\ pc' = "plot"
    /\ UNCHANGED <<argv, inputLines, input, fileOpen, output_file, pos, data,
                   shown, saved, usagePrinted, exitCode>>

\* plt.subplots rejects zero columns, or axs is a bare Axes, which the for
\* loop cannot iterate
RenderFail ==
    /\ \/ pc = "subplots" /\ Len(data) = 0
       \/ pc = "plot" /\ axs.single
    /\ exitCode' = 1
    /\ pc' = "render_error"
    /\ UNCHANGED <<argv, inputLines, input, fileOpen, output_file, pos, data,
                   fig, axs, colors, idx, shown, saved, usagePrinted>>

(***************************************************************************)
(* Lines 45-47: one iteration of the plotting loop.                        *)
(***************************************************************************)
PlotOne ==
    /\ pc = "plot"
    /\ ~axs.single
    /\ idx <= ZipLen
    /\ data[idx].series # <<>>
    /\ LET xy == Unzip(data[idx].series)
           ln == [x |-> xy[1], y |-> xy[2], marker |-> "o",
                  label |-> data[idx].label, color |-> colors[idx]]
       IN  axs' = [axs EXCEPT !.items[idx].lines = Append(@, ln)]
    /\ idx' = idx + 1
    /\ UNCHANGED <<argv, inputLines, pc, input, fileOpen, output_file, pos,
                   data, fig, colors, shown, saved, usagePrinted, exitCode>>

PlotEnd ==
    /\ pc = "plot"
    /\ ~axs.single
    /\ idx > ZipLen
    /\ idx' = 1
    /\ pc' = "labels"
    /\ UNCHANGED <<argv, inputLines, input, fileOpen, output_file, pos, data,
                   fig, axs, colors, shown, saved, usagePrinted, exitCode>>

(***************************************************************************)
(* Lines 49-52: one iteration of the labelling loop.                       *)
(***************************************************************************)
LabelOne ==
    /\ pc = "labels"
    /\ idx <= Len(axs.items)
    /\ axs' = [axs EXCEPT !.items[idx] =
                  [@ EXCEPT !.xlabel = "speed level", !.ylabel = "time (ms)",
                            !.legend = TRUE]]
    /\ idx' = idx + 1
    /\ UNCHANGED <<argv, inputLines, pc, input, fileOpen, output_file, pos,
                   data, fig, colors, shown, saved, usagePrinted, exitCode>>

LabelEnd ==
    /\ pc = "labels"
    /\ idx > Len(axs.items)
    /\ pc' = "final"
    /\ UNCHANGED <<argv, inputLines, input, fileOpen, output_file, pos, data,
                   fig, axs, colors, idx, shown, saved, usagePrinted, exitCode>>

(***************************************************************************)
(* Lines 54-57: show or save, then the script ends.                        *)
(***************************************************************************)
Show ==
    /\ pc = "final"
    /\ output_file.isNone
    /\ shown' = TRUE
    /\ exitCode' = 0
    /\ pc' = "done"
    /\ UNCHANGED <<argv, inputLines, input, fileOpen, output_file, pos, data,
                   fig, axs, colors, idx, saved, usagePrinted>>

Save ==
    /\ pc = "final"
    /\ ~output_file.isNone
    /\ saved' = Append(saved, output_file.path)
    /\ exitCode' = 0
    /\ pc' = "done"
    /\ UNCHANGED <<argv, inputLines, input, fileOpen, output_file, pos, data,
                   fig, axs, colors, idx, shown, usagePrinted>>

Next ==
    \/ Usage
    \/ OpenFile
    \/ OpenFail
    \/ UseStdin
    \/ ParseLine
    \/ ParseFail
    \/ ParseEnd
    \/ Subplots
    \/ RenderFail
    \/ PlotOne
    \/ PlotEnd
    \/ LabelOne
    \/ LabelEnd
    \/ Show
    \/ Save

Spec == Init /\ [][Next]_vars

(***************************************************************************)
(* What the lines of the model's input mean, written out by hand from the  *)
(* input line format LABEL SPEED: TIME_MS [ignored...]: the checks below   *)
(* compare the parser against this table, not against itself.              *)
(***************************************************************************)
Malformed == {LineNoTime, LineEmpty, LineBadSpeed, LineBlankTime}

ExpectedLabel(line) ==
    CASE line \in {LineAlpha, LineAlphaNoNL} -> Alpha
      [] line \in {LineB2, LineB1, LineBExtra} -> <<"b">>
      [] line = LineC -> <<"c">>
      [] OTHER -> <<"?">>

ExpectedSample(line) ==
    CASE line \in {LineAlpha, LineAlphaNoNL} -> <<3, 120>>
      [] line = LineB2 -> <<2, 20>>
      [] line = LineB1 -> <<1, 20>>
      [] line = LineBExtra -> <<-1, 7>>
      [] line = LineC -> <<10, 5>>
      [] OTHER -> <<0, 0>>

BenchPng == <<"b", "e", "n", "c", "h", ".", "p", "n", "g">>

ExpectedPng(arg) ==
    CASE arg = BenchTxt -> BenchPng
      [] arg = DeepPath -> <<"a", ".", "b", ".", "p", "n", "g">>
      [] arg = DotRc -> <<".", "r", "c", ".", "p", "n", "g">>
      [] OTHER -> <<>>

AllWellFormed == \A i \in 1..Len(inputLines) : inputLines[i] \notin Malformed

BadIndexes == {i \in 1..Len(inputLines) : inputLines[i] \in Malformed}

FirstBad == CHOOSE i \in BadIndexes : \A j \in BadIndexes : i <= j

\* the script is past the parse loop, which ended normally
AfterParse == pc \in {"subplots", "plot", "labels", "final", "done",
                      "render_error"}

\* the script got as far as reading its input
Reading == pc \notin {"start", "usage_exit", "io_error"}

NoOutput == ~fig.created /\ ~shown /\ saved = <<>>

\* the samples the first n lines hold for a label, in input order
RECURSIVE ExpectedSeries(_, _)
ExpectedSeries(label, n) ==
    IF n = 0 THEN <<>>
    ELSE ExpectedSeries(label, n - 1) \o
           (IF /\ inputLines[n] \notin Malformed
               /\ ExpectedLabel(inputLines[n]) = label
            THEN <<ExpectedSample(inputLines[n])>> ELSE <<>>)

RECURSIVE SumLen(_)
SumLen(d) == IF d = <<>> THEN 0 ELSE Len(Head(d).series) + SumLen(Tail(d))

(***************************************************************************)
(* C1: for a well-formed input with k >= 1 distinct labels, the Dataset    *)
(* the parse loop leaves has exactly k keys, no key twice, ordered by the  *)
(* first line each label appears on, and each Series is as long as the     *)
(* number of lines bearing its label.                                      *)
(***************************************************************************)
C1_KeysFirstSeenAndCounts ==
    (AfterParse /\ Len(inputLines) >= 1 /\ AllWellFormed) =>
        LET n == Len(inputLines)
            lab(i) == ExpectedLabel(inputLines[i])
            labels == {lab(i) : i \in 1..n}
            first(l) == CHOOSE i \in 1..n :
                            lab(i) = l /\ \A j \in 1..(i - 1) : lab(j) # l
        IN  /\ Len(data) = Cardinality(labels)
            /\ {data[e].label : e \in 1..Len(data)} = labels
            /\ \A e, f \in 1..Len(data) :
                   e # f => data[e].label # data[f].label
            /\ \A e, f \in 1..Len(data) :
                   e < f => first(data[e].label) < first(data[f].label)
            /\ \A e \in 1..Len(data) :
                   Len(data[e].series) =
                       Cardinality({j \in 1..n : lab(j) = data[e].label})

C1_Witness ==
    /\ pc = "subplots"
    /\ AllWellFormed
    /\ Len(inputLines) = 3
    /\ Len(data) = 2
    /\ Len(data[1].series) = 2

(***************************************************************************)
(* C2: every Series is exactly the (speed, time) pairs of the lines        *)
(* bearing its label, in input order: colons removed, tokens split on      *)
(* single spaces, tokens after the third ignored, nothing dropped,         *)
(* deduplicated or reordered; "alpha 3: 120" gives (3, 120) under "alpha". *)
(***************************************************************************)
C2_SeriesInEncounterOrder ==
    /\ \A i \in 1..pos :
           /\ inputLines[i] \notin Malformed
           /\ HasKey(data, ExpectedLabel(inputLines[i]))
    /\ \A e \in 1..Len(data) :
           data[e].series = ExpectedSeries(data[e].label, pos)
    /\ AfterParse => pos = Len(inputLines)

C2_Witness ==
    /\ pc = "subplots"
    /\ inputLines = <<LineB2, LineBExtra, LineB1>>
    /\ data = <<[label |-> <<"b">>,
                 series |-> << <<2, 20>>, <<-1, 7>>, <<1, 20>> >>]>>

(***************************************************************************)
(* C3: a line with fewer than 3 tokens or a non-integer speed or time ends *)
(* the run in a parse error at that line, wherever it stands: it is not    *)
(* skipped, no later line is consumed, and nothing is shown or saved.      *)
(***************************************************************************)
C3_StopsAtBadLine ==
    (Reading /\ BadIndexes # {}) =>
        /\ pc \in {"parse", "parse_error"}
        /\ pos <= FirstBad - 1
        /\ NoOutput
        /\ (pc = "parse_error" => pos = FirstBad - 1 /\ exitCode = 1)

C3_BadLineIsFatal ==
    /\ []C3_StopsAtBadLine
    /\ [][(pc = "parse" /\ BadIndexes # {} /\ pos = FirstBad - 1) =>
             (pc' = "parse_error" /\ pos' = pos)]_vars

C3_Witness ==
    /\ pc = "parse_error"
    /\ inputLines = <<LineAlpha, LineNoTime, LineB2>>
    /\ pos = 1

(***************************************************************************)
(* C4: a successful run ends with exactly one of show and save, fixed by   *)
(* the argument dispatch: with a file argument the figure is saved to the  *)
(* base name with its extension replaced by .png and never shown; with no  *)
(* argument it is shown and nothing is saved.                              *)
(***************************************************************************)
C4_ShowXorSave ==
    /\ ~(shown /\ saved # <<>>)
    /\ shown => Len(argv) = 1
    /\ saved # <<>> => Len(argv) = 2
    /\ pc = "done" =>
           /\ Len(argv) \in {1, 2}
           /\ Len(argv) = 2 => (~shown /\ saved = <<ExpectedPng(argv[2])>>)
           /\ Len(argv) = 1 => (shown /\ saved = <<>>)

C4_Witness ==
    /\ pc = "done"
    /\ argv = <<Prog, BenchTxt>>
    /\ saved = <<BenchPng>>
    /\ ~shown

(***************************************************************************)
(* C5: with two or more positional arguments the run prints the usage      *)
(* message and exits non-zero before any I/O: no file opened, no line      *)
(* read, no Dataset built, no figure created, shown or saved.              *)
(***************************************************************************)
C5_TooManyArgsIsUsage ==
    (Len(argv) > 2 /\ pc # "start") =>
        /\ pc = "usage_exit"
        /\ usagePrinted
        /\ exitCode = 1
        /\ input = "unset"
        /\ ~fileOpen
        /\ pos = 0
        /\ data = <<>>
        /\ NoOutput

C5_Witness == pc = "usage_exit" /\ Len(argv) = 3 /\ usagePrinted

(***************************************************************************)
(* C6, as stated: with --help as the only argument the help branch is not  *)
(* taken and the argument is treated as a file name.                       *)
(***************************************************************************)
C6_HelpIsAFileName ==
    (argv = <<Prog, HelpFlag>> /\ pc # "start") =>
        /\ ~usagePrinted
        /\ pc # "usage_exit"

(***************************************************************************)
(* C6, amended: with --help as the only argument the help branch is taken: *)
(* the usage message is printed, the run exits non-zero, and no file named *)
(* --help is opened.                                                       *)
(***************************************************************************)
C6_HelpAlonePrintsUsage ==
    (argv = <<Prog, HelpFlag>> /\ pc # "start") =>
        /\ pc = "usage_exit"
        /\ usagePrinted
        /\ exitCode = 1
        /\ input = "unset"
        /\ ~fileOpen

C6_Witness == argv = <<Prog, HelpFlag>> /\ pc = "usage_exit"

(***************************************************************************)
(* C7: with a file argument, the input file handle is closed by the time   *)
(* the parse step ends, normally or by a parse failure, and is never open  *)
(* during rendering.                                                       *)
(***************************************************************************)
C7_HandleReleased ==
    (input = "file" /\ (AfterParse \/ pc = "parse_error")) => ~fileOpen

(***************************************************************************)
(* C8: no rendering step happens before every input line is consumed, and  *)
(* from the end of the parse loop on the Dataset is never modified.        *)
(***************************************************************************)
C8_BuiltBeforeRendering ==
    /\ []((AfterParse \/ fig.created) => pos = Len(inputLines))
    /\ [][AfterParse => (data' = data /\ pos' = pos)]_vars

C8_Witness ==
    /\ pc = "plot"
    /\ idx = 2
    /\ pos = 3
    /\ Len(axs.items[1].lines) = 1

(***************************************************************************)
(* C9: for N >= 1 labels the figure has exactly N subplots (for N = 1 the  *)
(* single subplot is a one-element collection); the i-th subplot is        *)
(* plotted exactly once, with the i-th label's speeds and times in Series  *)
(* order, the i-th label as legend name and the i-th of N evenly spaced    *)
(* colours; every subplot ends with both axis labels and a legend.         *)
(***************************************************************************)
C9_OneSubplotPerLabel ==
    /\ \A i \in 1..Len(axs.items) : Len(axs.items[i].lines) <= 1
    /\ (pc \in {"final", "done"} /\ Len(data) >= 1) =>
           LET N == Len(data)
           IN  /\ fig.created
               /\ ~axs.single
               /\ Len(axs.items) = N
               /\ \A i \in 1..N :
                      LET ax == axs.items[i]
                          s == data[i].series
                      IN  /\ Len(ax.lines) = 1
                          /\ ax.lines[1].label = data[i].label
                          /\ ax.lines[1].x = [k \in 1..Len(s) |-> s[k][1]]
                          /\ ax.lines[1].y = [k \in 1..Len(s) |-> s[k][2]]
                          /\ ax.lines[1].color[2] > 0
                          /\ ax.lines[1].color[1] * (N - 1) =
                                 (i - 1) * ax.lines[1].color[2]
                          /\ (N = 1 => ax.lines[1].color[1] = 0)
                          /\ ax.xlabel = "speed level"
                          /\ ax.ylabel = "time (ms)"
                          /\ ax.legend

C9_Witness ==
    /\ pc = "done"
    /\ Len(data) = 3
    /\ Len(axs.items) = 3
    /\ axs.items[2].lines[1].color = <<1, 2>>

C9_WitnessSingle ==
    /\ pc = "done"
    /\ Len(data) = 1
    /\ Len(axs.items) = 1
    /\ ~axs.single

(***************************************************************************)
(* C10: after n lines consumed without failure the Series lengths sum to   *)
(* n and no key has an empty Series; a step of the loop appends one sample *)
(* to one Series, a new Series going to the end of the key order, and      *)
(* leaves the key order and every stored sample as they were.              *)
(***************************************************************************)
C10_AppendsOne ==
    \/ \E e \in 1..Len(data) :
           /\ Len(data') = Len(data)
           /\ \A f \in 1..Len(data) : f # e => data'[f] = data[f]
           /\ data'[e].label = data[e].label
           /\ Len(data'[e].series) = Len(data[e].series) + 1
           /\ SubSeq(data'[e].series, 1, Len(data[e].series)) = data[e].series
    \/ /\ Len(data') = Len(data) + 1
       /\ SubSeq(data', 1, Len(data)) = data
       /\ ~HasKey(data, data'[Len(data')].label)
       /\ Len(data'[Len(data')].series) = 1

C10_ParseLoopInvariant ==
    /\ [](pc # "parse_error" =>
             /\ SumLen(data) = pos
             /\ \A e \in 1..Len(data) : data[e].series # <<>>)
    /\ [][(pc' # "parse_error" /\ (data' # data \/ pos' # pos)) =>
             /\ pc = "parse"
             /\ pos' = pos + 1
             /\ C10_AppendsOne]_vars

C10_Witness ==
    /\ pc = "parse"
    /\ pos = 3
    /\ Len(data) = 2
    /\ Len(data[2].series) = 2

====
